---- MODULE Spec2Model ----
(***************************************************************************)
(* The segmented operand stack of tinywasm's interpreter                   *)
(* (crates/tinywasm/src/interpreter/stack/value_stack.rs).                 *)
(*                                                                         *)
(* Every method of ValueStack is an operator from a stack (and the call's  *)
(* arguments) to an outcome [st, ret, mid, applied]: the stack afterwards, *)
(* the value returned, the stack at the lowest point of the call (after    *)
(* its pops, before its pushes) and the arguments the caller-supplied      *)
(* function was invoked with.  The actions apply these operators.          *)
(***************************************************************************)
EXTENDS Integers, Sequences, FiniteSets, TLC

\* ------------------------------------------------------------------ bounds
\* The most values the operand stack holds, summed over the four categories.
MaxDepth == 4
\* The most values an unwind keeps, summed over the four categories.
MaxKeep == 2
\* The most entries of a val_types slice.
MaxArity == 2
\* The most locals a LocalCounts declares, summed over the four categories.
MaxLocals == 3

\* ------------------------------------------------------------------ values
\* The fields of ValueStack, one per category.
Cats == {"stack_32", "stack_64", "stack_128", "stack_ref"}

\* The types that implement InternalValue, and the category each is stored in.
InternalTypes == {"i32", "f32", "i64", "f64", "v128", "ref"}

CatOf(T) ==
    CASE T \in {"i32", "f32"} -> "stack_32"
      [] T \in {"i64", "f64"} -> "stack_64"
      [] T = "v128" -> "stack_128"
      [] T = "ref" -> "stack_ref"

\* ValueRef is Option<u32>: None is -1, Some(n) is n.
None == 0 - 1

\* The raw values pushed: two bit patterns per numeric category, the null
\* reference and one address for the reference category.
RawVals(c) == IF c = "stack_ref" THEN {None, 0} ELSE {0, 1}

\* A value of static type T: the type and its bit pattern.
TV(T, bits) == [ty |-> T, bits |-> bits]

Unit == [ty |-> "unit", bits |-> 0]

\* Result<T>: Ok(v), Err(e); a panic is kept apart from both.
Ok(v) == [ok |-> TRUE, val |-> v, err |-> "none"]
Err(e) == [ok |-> FALSE, val |-> Unit, err |-> e]
StackUnderflow == "StackUnderflow"
Panicked == [ok |-> FALSE, val |-> Unit, err |-> "panic"]

Front(s) == SubSeq(s, 1, Len(s) - 1)
Last(s) == s[Len(s)]

\* What a call did: the stack after it, its return value, the stack at its
\* lowest point and the arguments it applied the caller's function to.
Out(st, ret, mid, applied) == [st |-> st, ret |-> ret, mid |-> mid, applied |-> applied]

\* ------------------------------------------------------------------ ValueStack
new ==
    [stack_32 |-> <<>>, stack_64 |-> <<>>, stack_128 |-> <<>>, stack_ref |-> <<>>]

height_shifted(s) ==
    [s32 |-> Len(s.stack_32), s64 |-> Len(s.stack_32),
     s128 |-> Len(s.stack_128), sref |-> Len(s.stack_ref)]

height(s) ==
    [s32 |-> Len(s.stack_32), s64 |-> Len(s.stack_64),
     s128 |-> Len(s.stack_128), sref |-> Len(s.stack_ref)]

\* InternalValue::stack_peek / stack_pop / stack_push for the type T.
stack_peek(s, T) ==
    IF Len(s[CatOf(T)]) = 0
    THEN Out(s, Err(StackUnderflow), s, <<>>)
    ELSE Out(s, Ok(TV(T, Last(s[CatOf(T)]))), s, <<>>)

stack_pop(s, T) ==
    IF Len(s[CatOf(T)]) = 0
    THEN Out(s, Err(StackUnderflow), s, <<>>)
    ELSE LET t == [s EXCEPT ![CatOf(T)] = Front(@)]
         IN Out(t, Ok(TV(T, Last(s[CatOf(T)]))), t, <<>>)

stack_push(s, value) ==
    Out([s EXCEPT ![CatOf(value.ty)] = Append(@, value.bits)], Ok(Unit), s, <<>>)

peek(s, T) == stack_peek(s, T)

pop_as_peek(s, T) == stack_peek(s, T)

pop(s, T) == stack_pop(s, T)

push(s, value) == stack_push(s, value)

drop_lenient(s, T) ==
    LET r == stack_pop(s, T)
    IN Out(r.st, Ok(Unit), r.mid, <<>>)

drop(s, T) ==
    LET r == stack_pop(s, T)
    IN Out(r.st, IF r.ret.ok THEN Ok(Unit) ELSE r.ret, r.mid, <<>>)

select_inverted(s, T) ==
    LET c == pop(s, "i32") IN
    IF ~c.ret.ok THEN Out(c.st, c.ret, c.mid, <<>>)
    ELSE LET cond == c.ret.val
             v == pop(c.st, T)
         IN IF ~v.ret.ok THEN Out(v.st, v.ret, v.mid, <<>>)
            ELSE LET val2 == v.ret.val IN
                 IF cond.bits # 0
                 THEN LET d == drop(v.st, T) IN
                      IF ~d.ret.ok THEN Out(d.st, d.ret, d.mid, <<>>)
                      ELSE Out(push(d.st, val2).st, Ok(Unit), d.mid, <<>>)
                 ELSE Out(v.st, Ok(Unit), v.mid, <<>>)

select(s, T) ==
    LET c == pop(s, "i32") IN
    IF ~c.ret.ok THEN Out(c.st, c.ret, c.mid, <<>>)
    ELSE LET cond == c.ret.val
             v == pop(c.st, T)
         IN IF ~v.ret.ok THEN Out(v.st, v.ret, v.mid, <<>>)
            ELSE LET val2 == v.ret.val IN
                 IF cond.bits = 0
                 THEN LET d == drop(v.st, T) IN
                      IF ~d.ret.ok THEN Out(d.st, d.ret, d.mid, <<>>)
                      ELSE Out(push(d.st, val2).st, Ok(Unit), d.mid, <<>>)
                 ELSE Out(v.st, Ok(Unit), v.mid, <<>>)

\* The functions the interpreter passes to calculate: fn(T, T) -> Result<U>.
\* lt_u compares (the result is an i32), div_u traps on a zero divisor.
BinFuncs ==
    {[name |-> "lt_u", T |-> "i32", U |-> "i32"],
     [name |-> "lt_u", T |-> "i64", U |-> "i32"],
     [name |-> "div_u", T |-> "i32", U |-> "i32"],
     [name |-> "div_u", T |-> "i64", U |-> "i64"]}

ApplyBin(func, v1, v2) ==
    CASE func.name = "lt_u" -> Ok(TV(func.U, IF v1.bits < v2.bits THEN 1 ELSE 0))
      [] func.name = "div_u" ->
            IF v2.bits = 0 THEN Err("DivisionByZero") ELSE Ok(TV(func.U, v1.bits \div v2.bits))

\* The functions the interpreter passes to replace_top: fn(T) -> Result<U>.
\* eqz tests for zero, wrap converts, trunc traps on the bit pattern 1.
UnFuncs ==
    {[name |-> "eqz", T |-> "i32", U |-> "i32"],
     [name |-> "eqz", T |-> "i64", U |-> "i32"],
     [name |-> "wrap", T |-> "i64", U |-> "i32"],
     [name |-> "trunc", T |-> "f64", U |-> "i32"],
     [name |-> "trunc", T |-> "f32", U |-> "i64"]}

ApplyUn(func, v1) ==
    CASE func.name = "eqz" -> Ok(TV(func.U, IF v1.bits = 0 THEN 1 ELSE 0))
      [] func.name = "wrap" -> Ok(TV(func.U, v1.bits))
      [] func.name = "trunc" ->
            IF v1.bits = 1 THEN Err("InvalidConversionToInt") ELSE Ok(TV(func.U, v1.bits))

calculate_swapped(s, func) ==
    LET p2 == stack_pop(s, func.T) IN
    IF ~p2.ret.ok THEN Out(p2.st, p2.ret, p2.mid, <<>>)
    ELSE LET p1 == stack_pop(p2.st, func.T) IN
         IF ~p1.ret.ok THEN Out(p1.st, p1.ret, p1.mid, <<>>)
         ELSE LET v2 == p2.ret.val
                  v1 == p1.ret.val
                  r == ApplyBin(func, v2, v1)
              IN IF ~r.ok THEN Out(p1.st, r, p1.mid, <<v2, v1>>)
                 ELSE Out(stack_push(p1.st, r.val).st, Ok(Unit), p1.mid, <<v2, v1>>)

calculate_restoring(s, func) ==
    LET p2 == stack_pop(s, func.T) IN
    IF ~p2.ret.ok THEN Out(p2.st, p2.ret, p2.mid, <<>>)
    ELSE LET p1 == stack_pop(p2.st, func.T) IN
         IF ~p1.ret.ok THEN Out(p1.st, p1.ret, p1.mid, <<>>)
         ELSE LET v2 == p2.ret.val
                  v1 == p1.ret.val
                  r == ApplyBin(func, v1, v2)
              IN IF ~r.ok THEN Out(s, r, p1.mid, <<v1, v2>>)
                 ELSE Out(stack_push(p1.st, r.val).st, Ok(Unit), p1.mid, <<v1, v2>>)

\* calculate::<T, U>(func), T and U being the types of func.
calculate(s, func) ==
    LET p2 == stack_pop(s, func.T) IN
    IF ~p2.ret.ok THEN Out(p2.st, p2.ret, p2.mid, <<>>)
    ELSE LET p1 == stack_pop(p2.st, func.T) IN
         IF ~p1.ret.ok THEN Out(p1.st, p1.ret, p1.mid, <<>>)
         ELSE LET v2 == p2.ret.val
                  v1 == p1.ret.val
                  r == ApplyBin(func, v1, v2)
              IN IF ~r.ok THEN Out(p1.st, r, p1.mid, <<v1, v2>>)
                 ELSE Out(stack_push(p1.st, r.val).st, Ok(Unit), p1.mid, <<v1, v2>>)

\* replace_top::<T, U>(func), T and U being the types of func.
replace_top(s, func) ==
    LET p1 == stack_pop(s, func.T) IN
    IF ~p1.ret.ok THEN Out(p1.st, p1.ret, p1.mid, <<>>)
    ELSE LET v1 == p1.ret.val
             r == ApplyUn(func, v1)
         IN IF ~r.ok THEN Out(p1.st, r, p1.mid, <<v1>>)
            ELSE Out(stack_push(p1.st, r.val).st, Ok(Unit), p1.mid, <<v1>>)

\* ValType, and the InternalValue type pop_wasmvalue pops for each.
ValTypes == {"I32", "I64", "F32", "F64", "V128", "RefExtern", "RefFunc"}

PopType(val_type) ==
    CASE val_type = "I32" -> "i32"
      [] val_type = "I64" -> "i64"
      [] val_type = "V128" -> "v128"
      [] val_type = "F32" -> "f32"
      [] val_type = "F64" -> "f64"
      [] val_type = "RefExtern" -> "ref"
      [] val_type = "RefFunc" -> "ref"

\* TinyWasmValue: Value32(v), Value64(v), Value128(v), ValueRef(v).
TinyWasmValue(tag, v) == [tag |-> tag, v |-> v]

\* self.pop().map(TinyWasmValue::tag), popping the raw type T of the tag.
pop_as(s, T, tag) ==
    LET r == pop(s, T) IN
    Out(r.st, IF r.ret.ok THEN Ok(TinyWasmValue(tag, r.ret.val.bits)) ELSE r.ret,
        r.mid, <<>>)

pop_dyn_narrowed(s, val_type) ==
    CASE val_type = "I32" -> pop_as(s, "i32", "Value32")
      [] val_type = "I64" -> pop_as(s, "i64", "Value64")
      [] val_type = "V128" -> pop_as(s, "v128", "Value128")
      [] val_type = "RefExtern" -> pop_as(s, "ref", "ValueRef")
      [] val_type = "RefFunc" -> pop_as(s, "ref", "ValueRef")
      [] val_type = "F32" -> pop_as(s, "i32", "Value32")
      [] val_type = "F64" -> pop_as(s, "i32", "Value32")

pop_dyn(s, val_type) ==
    CASE val_type = "I32" -> pop_as(s, "i32", "Value32")
      [] val_type = "I64" -> pop_as(s, "i64", "Value64")
      [] val_type = "V128" -> pop_as(s, "v128", "Value128")
      [] val_type = "RefExtern" -> pop_as(s, "ref", "ValueRef")
      [] val_type = "RefFunc" -> pop_as(s, "ref", "ValueRef")
      [] val_type = "F32" -> pop_as(s, "i32", "Value32")
      [] val_type = "F64" -> pop_as(s, "i64", "Value64")

push_dyn_misfiled(s, value) ==
    CASE value.tag = "Value32" -> Out([s EXCEPT !.stack_32 = Append(@, value.v)], Ok(Unit), s, <<>>)
      [] value.tag = "Value64" -> Out([s EXCEPT !.stack_32 = Append(@, value.v)], Ok(Unit), s, <<>>)
      [] value.tag = "Value128" -> Out([s EXCEPT !.stack_128 = Append(@, value.v)], Ok(Unit), s, <<>>)
      [] value.tag = "ValueRef" -> Out([s EXCEPT !.stack_ref = Append(@, value.v)], Ok(Unit), s, <<>>)

push_dyn(s, value) ==
    CASE value.tag = "Value32" -> Out([s EXCEPT !.stack_32 = Append(@, value.v)], Ok(Unit), s, <<>>)
      [] value.tag = "Value64" -> Out([s EXCEPT !.stack_64 = Append(@, value.v)], Ok(Unit), s, <<>>)
      [] value.tag = "Value128" -> Out([s EXCEPT !.stack_128 = Append(@, value.v)], Ok(Unit), s, <<>>)
      [] value.tag = "ValueRef" -> Out([s EXCEPT !.stack_ref = Append(@, value.v)], Ok(Unit), s, <<>>)

\* WasmValue: I32(v), I64(v), F32(v), F64(v), V128(v), RefExtern(v),
\* RefFunc(v) and RefNull(val_type).
WasmValue(variant, v) == [variant |-> variant, v |-> v, of |-> "none"]
RefNull(val_type) == [variant |-> "RefNull", v |-> 0, of |-> val_type]

pop_wasmvalue(s, val_type) ==
    LET r == pop(s, PopType(val_type)) IN
    IF ~r.ret.ok THEN Out(r.st, r.ret, r.mid, <<>>)
    ELSE LET v == r.ret.val.bits IN
         CASE val_type \in {"I32", "I64", "V128", "F32", "F64"} ->
                Out(r.st, Ok(WasmValue(val_type, v)), r.mid, <<>>)
           [] val_type = "RefExtern" ->
                Out(r.st, Ok(IF v # None THEN WasmValue("RefExtern", v) ELSE RefNull("RefExtern")),
                    r.mid, <<>>)
           [] val_type = "RefFunc" ->
                Out(r.st, Ok(IF v # None THEN WasmValue("RefFunc", v) ELSE RefNull("RefFunc")),
                    r.mid, <<>>)

\* WasmValue::val_type: the ValType of a value.
val_type_of(value) ==
    IF value.variant = "RefNull" THEN value.of ELSE value.variant

\* From<&WasmValue> for TinyWasmValue: the bits of a number in the variant of
\* its width; a reference as Some(address), a null of either subtype as None.
into(value) ==
    CASE value.variant \in {"I32", "F32"} -> TinyWasmValue("Value32", value.v)
      [] value.variant \in {"I64", "F64"} -> TinyWasmValue("Value64", value.v)
      [] value.variant = "V128" -> TinyWasmValue("Value128", value.v)
      [] value.variant \in {"RefExtern", "RefFunc"} -> TinyWasmValue("ValueRef", value.v)
      [] value.variant = "RefNull" -> TinyWasmValue("ValueRef", None)

\* for value in values.iter() { self.push_dyn(value.into()) }
RECURSIVE push_each(_, _)
push_each(s, values) ==
    IF values = <<>> THEN s
    ELSE push_each(push_dyn(s, into(Head(values))).st, Tail(values))

extend_from_wasmvalues(s, values) == Out(push_each(s, values), Ok(Unit), s, <<>>)

Reverse(q) == [i \in 1..Len(q) |-> q[Len(q) + 1 - i]]

\* iter.map(|val_type| self.pop_wasmvalue(*val_type)).collect::<Result<Vec<_>>>():
\* one pop per type, in the order given, up to the first that fails.
RECURSIVE pop_each(_, _, _)
pop_each(s, types, acc) ==
    IF types = <<>>
    THEN Out(s, Ok(acc), s, <<>>)
    ELSE LET r == pop_wasmvalue(s, Head(types)) IN
         IF ~r.ret.ok THEN Out(r.st, r.ret, r.mid, <<>>)
         ELSE pop_each(r.st, Tail(types), Append(acc, r.ret.val))

pop_params(s, val_types) == pop_each(s, val_types, <<>>)

pop_results_unreversed(s, val_types) == pop_each(s, Reverse(val_types), <<>>)

pop_results(s, val_types) ==
    LET r == pop_each(s, Reverse(val_types), <<>>) IN
    IF ~r.ret.ok THEN r
    ELSE Out(r.st, Ok(Reverse(r.ret.val)), r.mid, <<>>)

\* The field of Locals that holds the locals of a TinyWasmValue variant.
LocalsField(tag) ==
    CASE tag = "Value32" -> "locals_32"
      [] tag = "Value64" -> "locals_64"
      [] tag = "Value128" -> "locals_128"
      [] tag = "ValueRef" -> "locals_ref"

NoLocals ==
    [locals_32 |-> <<>>, locals_64 |-> <<>>, locals_128 |-> <<>>, locals_ref |-> <<>>]

\* for ty in val_types { match self.pop_dyn(*ty)? { ... => locals_X.push(v) } }
RECURSIVE pop_args(_, _, _)
pop_args(s, val_types, acc) ==
    IF val_types = <<>>
    THEN Out(s, Ok(acc), s, <<>>)
    ELSE LET r == pop_dyn(s, Head(val_types)) IN
         IF ~r.ret.ok THEN Out(r.st, r.ret, r.mid, <<>>)
         ELSE pop_args(r.st, Tail(val_types),
                       [acc EXCEPT ![LocalsField(r.ret.val.tag)] = Append(@, r.ret.val.v)])

\* Vec::resize_with(new_len, Default::default): truncates to new_len or
\* appends defaults up to it.
resize_with(v, new_len, default) ==
    IF new_len <= Len(v)
    THEN SubSeq(v, 1, new_len)
    ELSE v \o [i \in 1..(new_len - Len(v)) |-> default]

extend_with(v, new_len, default) ==
    IF new_len <= Len(v)
    THEN v
    ELSE v \o [i \in 1..(new_len - Len(v)) |-> default]

pop_locals_unreversed(s, val_types, lc) ==
    LET r == pop_args(s, val_types, NoLocals) IN
    IF ~r.ret.ok THEN r
    ELSE LET a == r.ret.val IN
         Out(r.st,
             Ok([locals_32 |-> resize_with(a.locals_32, lc.local_32, 0),
                 locals_64 |-> resize_with(a.locals_64, lc.local_64, 0),
                 locals_128 |-> resize_with(a.locals_128, lc.local_128, 0),
                 locals_ref |-> resize_with(a.locals_ref, lc.local_ref, None)]),
             r.mid, <<>>)

pop_locals_defaulting(s, val_types, lc) ==
    LET r == pop_args(s, val_types, NoLocals)
        a == IF r.ret.ok THEN r.ret.val ELSE NoLocals
    IN Out(r.st,
           Ok([locals_32 |-> resize_with(Reverse(a.locals_32), lc.local_32, 0),
               locals_64 |-> resize_with(Reverse(a.locals_64), lc.local_64, 0),
               locals_128 |-> resize_with(Reverse(a.locals_128), lc.local_128, 0),
               locals_ref |-> resize_with(Reverse(a.locals_ref), lc.local_ref, None)]),
           r.mid, <<>>)

pop_locals_copying(s, val_types, lc) ==
    LET r == pop_args(s, val_types, NoLocals) IN
    IF ~r.ret.ok THEN r
    ELSE LET a == r.ret.val IN
         Out(s,
             Ok([locals_32 |-> resize_with(Reverse(a.locals_32), lc.local_32, 0),
                 locals_64 |-> resize_with(Reverse(a.locals_64), lc.local_64, 0),
                 locals_128 |-> resize_with(Reverse(a.locals_128), lc.local_128, 0),
                 locals_ref |-> resize_with(Reverse(a.locals_ref), lc.local_ref, None)]),
             s, <<>>)

pop_locals_padded(s, val_types, lc) ==
    LET r == pop_args(s, val_types, NoLocals) IN
    IF ~r.ret.ok THEN r
    ELSE LET a == r.ret.val IN
         Out(r.st,
             Ok([locals_32 |-> extend_with(Reverse(a.locals_32), lc.local_32, 0),
                 locals_64 |-> extend_with(Reverse(a.locals_64), lc.local_64, 0),
                 locals_128 |-> extend_with(Reverse(a.locals_128), lc.local_128, 0),
                 locals_ref |-> extend_with(Reverse(a.locals_ref), lc.local_ref, None)]),
             r.mid, <<>>)

\* The defaults are 0 for the numeric categories and None for ValueRef.
pop_locals(s, val_types, lc) ==
    LET r == pop_args(s, val_types, NoLocals) IN
    IF ~r.ret.ok THEN r
    ELSE LET a == r.ret.val IN
         Out(r.st,
             Ok([locals_32 |-> resize_with(Reverse(a.locals_32), lc.local_32, 0),
                 locals_64 |-> resize_with(Reverse(a.locals_64), lc.local_64, 0),
                 locals_128 |-> resize_with(Reverse(a.locals_128), lc.local_128, 0),
                 locals_ref |-> resize_with(Reverse(a.locals_ref), lc.local_ref, None)]),
             r.mid, <<>>)

\* Vec::drain(start..end): removes the elements at the 0-based indices
\* start..end; panics when start > end or end > len.
drain(data, start, end) ==
    IF start > end \/ end > Len(data)
    THEN [data |-> data, panic |-> TRUE]
    ELSE [data |-> SubSeq(data, 1, start) \o SubSeq(data, end + 1, Len(data)),
          panic |-> FALSE]

truncate_to(data, n, end_keep) ==
    IF Len(data) <= n
    THEN [data |-> data, panic |-> FALSE]
    ELSE drain(data, n, Len(data))

truncate_keep_counted(data, n, end_keep) ==
    LET len == Len(data) IN
    IF len <= n
    THEN [data |-> data, panic |-> FALSE]
    ELSE drain(data, n, n + end_keep)

\* The fn truncate_keep nested in ValueStack::truncate_keep.  len - end_keep
\* is a u32 subtraction: when end_keep > len it panics in a build with
\* overflow checks and wraps to a value above len in one without, where
\* drain panics on the range end; either way the call panics.
truncate_keep_inner(data, n, end_keep) ==
    LET len == Len(data) IN
    IF len <= n
    THEN [data |-> data, panic |-> FALSE]
    ELSE IF end_keep > len
         THEN [data |-> data, panic |-> TRUE]
         ELSE drain(data, n, len - end_keep)

\* The four calls run in order; a panic ends the call where it happens.
truncate_keep(s, to, keep) ==
    LET r32 == truncate_keep_inner(s.stack_32, to.s32, keep.s32)
        s1 == [s EXCEPT !.stack_32 = r32.data]
        r64 == truncate_keep_inner(s1.stack_64, to.s64, keep.s64)
        s2 == [s1 EXCEPT !.stack_64 = r64.data]
        r128 == truncate_keep_inner(s2.stack_128, to.s128, keep.s128)
        s3 == [s2 EXCEPT !.stack_128 = r128.data]
        rref == truncate_keep_inner(s3.stack_ref, to.sref, keep.sref)
        s4 == [s3 EXCEPT !.stack_ref = rref.data]
    IN IF r32.panic THEN Out(s1, Panicked, s1, <<>>)
       ELSE IF r64.panic THEN Out(s2, Panicked, s2, <<>>)
       ELSE IF r128.panic THEN Out(s3, Panicked, s3, <<>>)
       ELSE IF rref.panic THEN Out(s4, Panicked, s4, <<>>)
       ELSE Out(s4, Ok(Unit), s4, <<>>)

\* ------------------------------------------------------------------ state
VARIABLES
    stack,      \* the ValueStack
    ret,        \* what the last call returned
    pre,        \* the stack before the last call
    call,       \* the last call: its name and arguments
    invoked,    \* the arguments the last call applied the caller's function to
    prior,      \* when a pop follows a push: that push and the stack before it;
                \* when a truncate_keep repeats the one before: that call
    frame       \* the block the caller is in, for as long as no instruction
                \* took a category below the StackLocation saved on entry:
                \* that StackLocation and the stack at entry

vars == <<stack, ret, pre, call, invoked, prior, frame>>

Depth(s) == Len(s.stack_32) + Len(s.stack_64) + Len(s.stack_128) + Len(s.stack_ref)

NoCall == [op |-> "new"]

NoFrame == [phase |-> "outside", mark |-> height(new), base |-> new]

Init ==
    /\ stack = new
    /\ ret = Ok(Unit)
    /\ pre = new
    /\ call = NoCall
    /\ invoked = <<>>
    /\ prior = NoCall
    /\ frame = NoFrame

\* The program goes on after a call unless the call panicked.
Alive == ret.err # "panic"

\* The state after a call c whose outcome is o.
Apply(c, o) ==
    /\ Alive
    /\ stack' = o.st
    /\ ret' = o.ret
    /\ pre' = stack
    /\ call' = c
    /\ invoked' = o.applied
    /\ prior' = IF c.op = "pop" /\ call.op = "push"
                THEN [op |-> "push", T |-> call.T, value |-> call.value, pre |-> pre]
                ELSE IF c.op = "truncate_keep" /\ c = call
                THEN [op |-> "truncate_keep", pre |-> pre]
                ELSE NoCall
    /\ UNCHANGED frame

Do_height ==
    Apply([op |-> "height"], Out(stack, Ok(height(stack)), stack, <<>>))

Do_push ==
    \E T \in InternalTypes : \E b \in RawVals(CatOf(T)) :
        /\ Depth(stack) < MaxDepth
        /\ Apply([op |-> "push", T |-> T, value |-> TV(T, b)], push(stack, TV(T, b)))

Do_pop ==
    \E T \in InternalTypes : Apply([op |-> "pop", T |-> T], pop(stack, T))

Do_peek ==
    \E T \in InternalTypes : Apply([op |-> "peek", T |-> T], peek(stack, T))

Do_drop ==
    \E T \in InternalTypes : Apply([op |-> "drop", T |-> T], drop(stack, T))

Do_select ==
    \E T \in InternalTypes : Apply([op |-> "select", T |-> T], select(stack, T))

Do_calculate ==
    \E func \in BinFuncs :
        Apply([op |-> "calculate", T |-> func.T, func |-> func], calculate(stack, func))

Do_replace_top ==
    \E func \in UnFuncs :
        Apply([op |-> "replace_top", T |-> func.T, func |-> func], replace_top(stack, func))

\* The category a TinyWasmValue variant carries.
TagCat(tag) ==
    CASE tag = "Value32" -> "stack_32"
      [] tag = "Value64" -> "stack_64"
      [] tag = "Value128" -> "stack_128"
      [] tag = "ValueRef" -> "stack_ref"

TinyWasmValues ==
    UNION {{TinyWasmValue(tag, v) : v \in RawVals(TagCat(tag))} :
              tag \in {"Value32", "Value64", "Value128", "ValueRef"}}

Do_push_dyn ==
    \E value \in TinyWasmValues :
        /\ Depth(stack) < MaxDepth
        /\ Apply([op |-> "push_dyn", value |-> value], push_dyn(stack, value))

Do_pop_dyn ==
    \E val_type \in ValTypes :
        Apply([op |-> "pop_dyn", val_type |-> val_type], pop_dyn(stack, val_type))

Next ==
    \/ Do_height
    \/ Do_push
    \/ Do_pop
    \/ Do_peek
    \/ Do_drop
    \/ Do_select
    \/ Do_calculate
    \/ Do_replace_top
    \/ Do_push_dyn
    \/ Do_pop_dyn

Spec == Init /\ [][Next]_vars

\* ------------------------------------------------------------------ one call
\* The StackLocations and StackHeights whose entries sum to at most n.
Locs(n) ==
    {h \in [s32 : 0..n, s64 : 0..n, s128 : 0..n, sref : 0..n] :
        h.s32 + h.s64 + h.s128 + h.sref <= n}

\* The stacks of height h.
StacksOfHeight(h) ==
    [stack_32 : [1..h.s32 -> RawVals("stack_32")],
     stack_64 : [1..h.s64 -> RawVals("stack_64")],
     stack_128 : [1..h.s128 -> RawVals("stack_128")],
     stack_ref : [1..h.sref -> RawVals("stack_ref")]]

\* The stacks Do_push builds from new: every stack of at most MaxDepth values.
BuiltStacks == UNION {StacksOfHeight(h) : h \in Locs(MaxDepth)}

\* The interpreter about to make a call on a stack it has built.
InitBuilt ==
    /\ stack \in BuiltStacks
    /\ ret = Ok(Unit)
    /\ pre = new
    /\ call = NoCall
    /\ invoked = <<>>
    /\ prior = NoCall
    /\ frame = NoFrame

Fresh == call = NoCall

\* The stack of height h whose values are numbered from the bottom of each
\* category: 1, 2, ... in the numeric ones, Some(0), Some(1), ... in
\* stack_ref.  No two values of a category are equal and none is the
\* default of its type.
Ramp(n, first) == [i \in 1..n |-> first + i - 1]

RampStack(h) ==
    [stack_32 |-> Ramp(h.s32, 1), stack_64 |-> Ramp(h.s64, 1),
     stack_128 |-> Ramp(h.s128, 1), stack_ref |-> Ramp(h.sref, 0)]

RampStacks == {RampStack(h) : h \in Locs(MaxDepth)}

\* The interpreter about to make a call on a stack of numbered values.
InitRamp ==
    /\ stack \in RampStacks
    /\ ret = Ok(Unit)
    /\ pre = new
    /\ call = NoCall
    /\ invoked = <<>>
    /\ prior = NoCall
    /\ frame = NoFrame

Do_truncate_keep ==
    \E to \in Locs(MaxDepth) : \E keep \in Locs(MaxKeep) :
        Apply([op |-> "truncate_keep", to |-> to, keep |-> keep],
              truncate_keep(stack, to, keep))

NextTrunc == Fresh /\ Do_truncate_keep

\* One truncate_keep on any stack of numbered values.
SpecTrunc == InitRamp /\ [][NextTrunc]_vars

\* The field of a StackLocation or StackHeight that describes a category.
LocField(c) ==
    CASE c = "stack_32" -> "s32"
      [] c = "stack_64" -> "s64"
      [] c = "stack_128" -> "s128"
      [] c = "stack_ref" -> "sref"

\* truncate_keep(to, keep) is within its contract on the stack s: in every
\* category there is nothing to discard, or the kept values all lie above
\* the saved depth.
InContract(s, to, keep) ==
    \A c \in Cats :
        \/ Len(s[c]) <= to[LocField(c)]
        \/ to[LocField(c)] + keep[LocField(c)] <= Len(s[c])

\* The caller repeats the truncate_keep it has just made.
Do_truncate_keep_again ==
    /\ call.op = "truncate_keep"
    /\ prior = NoCall
    /\ Apply(call, truncate_keep(stack, call.to, call.keep))

NextTwice ==
    \/ /\ Fresh
       /\ \E to \in Locs(MaxDepth) : \E keep \in Locs(MaxKeep) :
             /\ InContract(stack, to, keep)
             /\ Apply([op |-> "truncate_keep", to |-> to, keep |-> keep],
                      truncate_keep(stack, to, keep))
    \/ Do_truncate_keep_again

\* A truncate_keep within its contract on any stack of numbered values, then
\* the same call once more.
SpecTwice == InitRamp /\ [][NextTwice]_vars

\* The val_types slices of at most MaxArity entries.
ValTypeSeqs == UNION {[1..n -> ValTypes] : n \in 0..MaxArity}

Do_pop_params ==
    \E val_types \in ValTypeSeqs :
        Apply([op |-> "pop_params", val_types |-> val_types], pop_params(stack, val_types))

Do_pop_results ==
    \E val_types \in ValTypeSeqs :
        Apply([op |-> "pop_results", val_types |-> val_types], pop_results(stack, val_types))

NextParams ==
    /\ Fresh
    /\ \/ Do_pop_params
       \/ Do_pop_results

\* One pop_params or pop_results on any stack the interpreter has built.
SpecParams == InitBuilt /\ [][NextParams]_vars

\* The LocalCounts that declare at most MaxLocals locals.
LocalCountsSet ==
    {lc \in [local_32 : 0..MaxLocals, local_64 : 0..MaxLocals,
             local_128 : 0..MaxLocals, local_ref : 0..MaxLocals] :
        lc.local_32 + lc.local_64 + lc.local_128 + lc.local_ref <= MaxLocals}

Do_pop_locals ==
    \E val_types \in ValTypeSeqs : \E lc \in LocalCountsSet :
        Apply([op |-> "pop_locals", val_types |-> val_types, lc |-> lc],
              pop_locals(stack, val_types, lc))

NextLocals == Fresh /\ Do_pop_locals

\* One pop_locals on any stack of numbered values.
SpecLocals == InitRamp /\ [][NextLocals]_vars

\* The WasmValues passed in: two bit patterns per numeric type, one address
\* per reference type and the null of each reference type.
WasmValues ==
    {WasmValue(variant, v) : variant \in {"I32", "I64", "F32", "F64", "V128"}, v \in {0, 1}}
        \cup {WasmValue("RefExtern", 0), WasmValue("RefFunc", 0),
              RefNull("RefExtern"), RefNull("RefFunc")}

WasmValueSeqs == UNION {[1..n -> WasmValues] : n \in 0..MaxArity}

\* A call made while a sequence of values is passed in and taken back: p
\* records the values, the stack before them and what came back so far.
ApplyWith(c, o, p) ==
    /\ Alive
    /\ stack' = o.st
    /\ ret' = o.ret
    /\ pre' = stack
    /\ call' = c
    /\ invoked' = o.applied
    /\ prior' = p
    /\ UNCHANGED frame

Do_extend_from_wasmvalues ==
    /\ Fresh
    /\ \E values \in WasmValueSeqs :
          /\ Depth(stack) + Len(values) <= MaxDepth
          /\ ApplyWith([op |-> "extend_from_wasmvalues", values |-> values],
                       extend_from_wasmvalues(stack, values),
                       [op |-> "extend_from_wasmvalues", values |-> values,
                        pre |-> stack, got |-> <<>>])

\* The caller takes the values back last first, each with its own ValType.
Pending == prior.op = "extend_from_wasmvalues" /\ Len(prior.got) < Len(prior.values)
NextBack == prior.values[Len(prior.values) - Len(prior.got)]

Do_pop_wasmvalue ==
    /\ Pending
    /\ LET o == pop_wasmvalue(stack, val_type_of(NextBack)) IN
       ApplyWith([op |-> "pop_wasmvalue", val_type |-> val_type_of(NextBack)], o,
                 [prior EXCEPT !.got = Append(@, [by |-> "pop_wasmvalue", ret |-> o.ret])])

Do_pop_dyn_back ==
    /\ Pending
    /\ LET o == pop_dyn(stack, val_type_of(NextBack)) IN
       ApplyWith([op |-> "pop_dyn", val_type |-> val_type_of(NextBack)], o,
                 [prior EXCEPT !.got = Append(@, [by |-> "pop_dyn", ret |-> o.ret])])

NextDyn ==
    \/ Do_extend_from_wasmvalues
    \/ Do_pop_wasmvalue
    \/ Do_pop_dyn_back

\* extend_from_wasmvalues on any stack of numbered values, then one
\* runtime-typed pop per value, last value first.
SpecDyn == InitRamp /\ [][NextDyn]_vars

\* ------------------------------------------------------------------ blocks
\* The caller's protocol for a block, loop or function body: save height() on
\* entry, run instructions, unwind with truncate_keep(saved, result arity).
\* No category of the stack s is below the saved StackLocation.
NotBelow(s, mark) ==
    /\ Len(s.stack_32) >= mark.s32
    /\ Len(s.stack_64) >= mark.s64
    /\ Len(s.stack_128) >= mark.s128
    /\ Len(s.stack_ref) >= mark.sref

\* An instruction with outcome o.  The block is followed while the
\* instruction, at its lowest point, stays at or above the saved
\* StackLocation; an instruction that goes below it, or one that runs after
\* the unwind, leaves the caller outside any followed block.
Track(o) ==
    /\ Alive
    /\ stack' = o.st
    /\ frame' = IF frame.phase = "inside" /\ NotBelow(o.mid, frame.mark)
                THEN frame
                ELSE NoFrame
    /\ ret' = Ok(Unit)
    /\ pre' = new
    /\ call' = NoCall
    /\ invoked' = <<>>
    /\ prior' = NoCall

Enter ==
    /\ Alive
    /\ frame.phase # "inside"
    /\ frame' = [phase |-> "inside", mark |-> height(stack), base |-> stack]
    /\ ret' = Ok(Unit)
    /\ pre' = new
    /\ call' = NoCall
    /\ invoked' = <<>>
    /\ prior' = NoCall
    /\ UNCHANGED stack

In_push ==
    \E T \in InternalTypes : \E b \in RawVals(CatOf(T)) :
        /\ Depth(stack) < MaxDepth
        /\ Track(push(stack, TV(T, b)))

In_pop == \E T \in InternalTypes : Track(pop(stack, T))

In_select == \E T \in InternalTypes : Track(select(stack, T))

In_calculate == \E func \in BinFuncs : Track(calculate(stack, func))

In_replace_top == \E func \in UnFuncs : Track(replace_top(stack, func))

Exit ==
    \E keep \in Locs(MaxKeep) :
        LET o == truncate_keep(stack, frame.mark, keep) IN
        /\ Alive
        /\ frame.phase = "inside"
        /\ stack' = o.st
        /\ ret' = o.ret
        /\ pre' = stack
        /\ call' = [op |-> "truncate_keep", to |-> frame.mark, keep |-> keep]
        /\ invoked' = <<>>
        /\ prior' = NoCall
        /\ frame' = [frame EXCEPT !.phase = "exited"]

NextUnwind ==
    \/ Enter
    \/ In_push
    \/ In_pop
    \/ In_select
    \/ In_calculate
    \/ In_replace_top
    \/ Exit

SpecUnwind == Init /\ [][NextUnwind]_vars

\* ------------------------------------------------------------------ properties
\* The last n elements of a sequence.
TopN(q, n) == SubSeq(q, Len(q) - n + 1, Len(q))

\* A category is within truncate_keep's contract: nothing to discard, or
\* the kept values all lie above the saved depth.
TruncInContract(c) ==
    \/ Len(pre[c]) <= call.to[LocField(c)]
    \/ call.to[LocField(c)] + call.keep[LocField(c)] <= Len(pre[c])

\* C1: truncate_keep(to, keep) leaves a category of length len <= to as it
\* is, and otherwise (to + keep <= len) leaves its first to elements
\* followed by its last keep elements.
C1_TruncateKeep ==
    (call.op = "truncate_keep" /\ \A c \in Cats : TruncInContract(c)) =>
        /\ ret = Ok(Unit)
        /\ \A c \in Cats :
              LET old == pre[c]
                  to == call.to[LocField(c)]
                  keep == call.keep[LocField(c)]
              IN IF Len(old) <= to
                 THEN stack[c] = old
                 ELSE /\ Len(stack[c]) = to + keep
                      /\ SubSeq(stack[c], 1, to) = SubSeq(old, 1, to)
                      /\ TopN(stack[c], keep) = TopN(old, keep)

C1_Witness ==
    /\ call.op = "truncate_keep"
    /\ \A c \in Cats : TruncInContract(c)
    /\ pre.stack_64 = <<1, 2, 3>> /\ call.to.s64 = 1 /\ call.keep.s64 = 1
    /\ stack.stack_64 = <<1, 3>>
    /\ pre.stack_32 = <<1>> /\ call.to.s32 = 2 /\ stack.stack_32 = <<1>>

\* The block was unwound after instructions none of which took a category
\* below its saved height (frame follows no other block), and before the
\* unwind each category held the values to keep above that height.
UnwindInContract ==
    /\ frame.phase = "exited"
    /\ \A c \in Cats :
          Len(pre[c]) >= frame.mark[LocField(c)] + call.keep[LocField(c)]

\* C2: after height() is saved as L and instructions run that never take a
\* category below L and leave keep values above it, truncate_keep(L, keep)
\* leaves in every category the L values present at entry followed by the
\* top keep values from before the unwind.
C2_FrameUnwind ==
    UnwindInContract =>
        /\ ret = Ok(Unit)
        /\ \A c \in Cats :
              LET L == frame.mark[LocField(c)]
                  keep == call.keep[LocField(c)]
              IN /\ L = Len(frame.base[c])
                 /\ Len(stack[c]) = L + keep
                 /\ SubSeq(stack[c], 1, L) = frame.base[c]
                 /\ TopN(stack[c], keep) = TopN(pre[c], keep)

C2_Witness ==
    /\ UnwindInContract
    /\ frame.base.stack_32 = <<1>> /\ frame.base.stack_64 = <<0>>
    /\ pre.stack_32 = <<1>> /\ pre.stack_64 = <<0, 1, 0>>
    /\ call.keep.s64 = 1
    /\ stack.stack_64 = <<0, 0>>

\* C3: a pop::<T>() that immediately follows push(v), v of type T, returns
\* exactly v and leaves the four sequences as they were before the push.
C3_PushPopRoundTrip ==
    (call.op = "pop" /\ prior.op = "push" /\ prior.T = call.T)
        => (ret = Ok(prior.value) /\ stack = prior.pre)

C3_Witness ==
    /\ call.op = "pop" /\ prior.op = "push"
    /\ prior.T = "f32" /\ call.T = "f32"
    /\ prior.value.bits = 1
    /\ Len(stack.stack_32) > 0 /\ Len(stack.stack_ref) > 0

\* C4: pop, peek and drop on an empty category fail with StackUnderflow and
\* leave the four sequences as they were.
C4_UnderflowOnEmpty ==
    (call.op \in {"pop", "peek", "drop"} /\ Len(pre[CatOf(call.T)]) = 0)
        => (ret = Err(StackUnderflow) /\ stack = pre)

C4_Witness ==
    /\ call.op = "drop" /\ call.T = "i64"
    /\ Len(pre.stack_64) = 0 /\ Len(pre.stack_32) > 0
    /\ ret.err = StackUnderflow

\* The operands of a select::<T>(): the condition on top of stack_32 and,
\* under it, two values in T's category.
SelectBelow(T) == [pre EXCEPT !.stack_32 = Front(@)]
SelectOperands(T) ==
    /\ call.op = "select"
    /\ Len(pre.stack_32) >= 1
    /\ Len(SelectBelow(T)[CatOf(T)]) >= 2
SelectCond == Last(pre.stack_32)
SelectA(T) == LET q == SelectBelow(T)[CatOf(T)] IN q[Len(q) - 1]
SelectB(T) == LET q == SelectBelow(T)[CatOf(T)] IN q[Len(q)]

\* C5: select consumes the condition and leaves, in place of the operands a
\* and b, the value b when the condition is 0 and a otherwise; all else is
\* unchanged, also when T is stored in stack_32.
C5_SelectChooses ==
    SelectOperands(call.T) =>
        /\ ret = Ok(Unit)
        /\ stack = [SelectBelow(call.T) EXCEPT ![CatOf(call.T)] =
                        Append(SubSeq(@, 1, Len(@) - 2),
                               IF SelectCond = 0 THEN SelectB(call.T) ELSE SelectA(call.T))]

C5_Witness ==
    /\ SelectOperands(call.T)
    /\ call.T = "f32"
    /\ SelectCond = 0
    /\ SelectA(call.T) = 0 /\ SelectB(call.T) = 1
    /\ stack.stack_32 = <<1>>

\* C6: select fails with StackUnderflow whenever the condition and the two
\* operands are not all present, whatever the condition.
C6_SelectUnderflows ==
    (call.op = "select" /\ ~SelectOperands(call.T)) => ret = Err(StackUnderflow)

\* The operands of a calculate or replace_top: n values on T's category.
HasOperands(n) ==
    /\ call.op = IF n = 2 THEN "calculate" ELSE "replace_top"
    /\ Len(pre[CatOf(call.T)]) >= n
Operand(k) == LET q == pre[CatOf(call.T)] IN TV(call.T, q[Len(q) - k])
Popped(n) == [pre EXCEPT ![CatOf(call.T)] = SubSeq(@, 1, Len(@) - n)]

\* C7: calculate, v1 pushed before v2, applies func to (v1, v2) in that order
\* and, when func succeeds, takes the two operands off T's category and puts
\* the result on top of U's.
C7_CalculateOrder ==
    HasOperands(2) =>
        /\ invoked = <<Operand(1), Operand(0)>>
        /\ LET r == ApplyBin(call.func, Operand(1), Operand(0)) IN
           r.ok => /\ ret = Ok(Unit)
                   /\ stack = [Popped(2) EXCEPT ![CatOf(call.func.U)] = Append(@, r.val.bits)]

C7_Witness ==
    /\ HasOperands(2)
    /\ call.func.name = "lt_u" /\ call.func.T = "i64"
    /\ Operand(1).bits = 0 /\ Operand(0).bits = 1
    /\ ret.ok
    /\ Last(stack.stack_32) = 1

\* C8: when the caller's function fails, calculate and replace_top return
\* its error, with the operands removed and nothing pushed.
C8_OperatorFailure ==
    /\ HasOperands(2) =>
          LET r == ApplyBin(call.func, Operand(1), Operand(0)) IN
          ~r.ok => (ret = r /\ stack = Popped(2))
    /\ HasOperands(1) =>
          LET r == ApplyUn(call.func, Operand(0)) IN
          ~r.ok => (ret = r /\ stack = Popped(1))

C8_Witness ==
    /\ HasOperands(2)
    /\ call.func.name = "div_u"
    /\ Operand(0).bits = 0 /\ Operand(1).bits = 1
    /\ ret.err = "DivisionByZero"
    /\ Depth(stack) = Depth(pre) - 2

\* The category a ValType is stored in.
ValCat(val_type) ==
    CASE val_type \in {"I32", "F32"} -> "stack_32"
      [] val_type \in {"I64", "F64"} -> "stack_64"
      [] val_type = "V128" -> "stack_128"
      [] val_type \in {"RefExtern", "RefFunc"} -> "stack_ref"

\* How many of the first i entries of val_types are stored in category c.
CountIn(val_types, i, c) == Cardinality({j \in 1..i : ValCat(val_types[j]) = c})

\* One value per entry of val_types was pushed, in the order of val_types:
\* every category holds at least the values of its entries.
PushedInOrder(val_types) ==
    \A c \in Cats : Len(pre[c]) >= CountIn(val_types, Len(val_types), c)

\* The raw value that was pushed for val_types[i]: among the top values of
\* its category, the one at the rank of i among the entries of that category.
RawPushedFor(val_types, i) ==
    LET c == ValCat(val_types[i])
    IN pre[c][Len(pre[c]) - CountIn(val_types, Len(val_types), c) + CountIn(val_types, i, c)]

\* The WasmValue of type val_type that is stored as raw.
AsWasmValue(val_type, raw) ==
    IF val_type \in {"RefExtern", "RefFunc"} /\ raw = None
    THEN [variant |-> "RefNull", v |-> 0, of |-> val_type]
    ELSE [variant |-> val_type, v |-> raw, of |-> "none"]

ReturnsInDeclaredOrder(val_types) ==
    /\ ret.ok
    /\ Len(ret.val) = Len(val_types)
    /\ \A i \in 1..Len(val_types) :
          ret.val[i] = AsWasmValue(val_types[i], RawPushedFor(val_types, i))

\* C9: pop_params, after one value per type was pushed in declaration order,
\* returns at every index i the value pushed for val_types[i].
C9_PopParamsOrder ==
    (call.op = "pop_params" /\ PushedInOrder(call.val_types))
        => ReturnsInDeclaredOrder(call.val_types)

\* C10: pop_results, after one value per result type was pushed in
\* declaration order, returns at every index i the value pushed for
\* val_types[i], tagged with val_types[i].
C10_PopResultsOrder ==
    (call.op = "pop_results" /\ PushedInOrder(call.val_types))
        => ReturnsInDeclaredOrder(call.val_types)

C10_Witness ==
    /\ call.op = "pop_results"
    /\ call.val_types = <<"F32", "I32">>
    /\ pre.stack_32 = <<0, 1, 0>>
    /\ ret.ok
    /\ ret.val = <<WasmValue("F32", 1), WasmValue("I32", 0)>>
    /\ stack.stack_32 = <<0>>

\* The category a call of the typed or the runtime-typed API addresses.
Addressed(c) ==
    CASE c.op \in {"push", "pop", "peek", "drop"} -> CatOf(c.T)
      [] c.op = "push_dyn" -> TagCat(c.value.tag)
      [] c.op = "pop_dyn" -> ValCat(c.val_type)

\* C14: a push, pop, peek, drop, push_dyn or pop_dyn leaves the three
\* categories it does not address as they were, whether it returns Ok or
\* StackUnderflow.
C14_CategoryIsolation ==
    call.op \in {"push", "pop", "peek", "drop", "push_dyn", "pop_dyn"} =>
        \A c \in Cats \ {Addressed(call)} : stack[c] = pre[c]

C14_Witness ==
    /\ call.op = "pop_dyn" /\ call.val_type = "F64"
    /\ pre.stack_32 = <<1>> /\ pre.stack_64 = <<0, 1>> /\ pre.stack_ref = <<None>>
    /\ ret = Ok(TinyWasmValue("Value64", 1))
    /\ stack.stack_32 = <<1>> /\ stack.stack_64 = <<0>> /\ stack.stack_ref = <<None>>

\* The field of Locals and the field of LocalCounts for a category.
LocalsOf(c) ==
    CASE c = "stack_32" -> "locals_32"
      [] c = "stack_64" -> "locals_64"
      [] c = "stack_128" -> "locals_128"
      [] c = "stack_ref" -> "locals_ref"

CountOf(c) ==
    CASE c = "stack_32" -> "local_32"
      [] c = "stack_64" -> "local_64"
      [] c = "stack_128" -> "local_128"
      [] c = "stack_ref" -> "local_ref"

\* Zero, or null for references.
DefaultOf(c) == IF c = "stack_ref" THEN None ELSE 0

\* The number of arguments of category c, and the arguments themselves in
\* declaration order: the topmost values of c before the call.
NArgs(c) == CountIn(call.val_types, Len(call.val_types), c)
ArgsOf(c) == TopN(pre[c], NArgs(c))

\* C11: pop_locals, after the arguments were pushed in declaration order and
\* with counts that cover them, returns in each category array the
\* category's arguments in declaration order, then defaults up to the count.
C11_PopLocalsOrder ==
    (/\ call.op = "pop_locals"
     /\ PushedInOrder(call.val_types)
     /\ \A c \in Cats : call.lc[CountOf(c)] >= NArgs(c))
        => /\ ret.ok
           /\ \A c \in Cats :
                 ret.val[LocalsOf(c)] =
                     ArgsOf(c) \o [i \in 1..(call.lc[CountOf(c)] - NArgs(c)) |-> DefaultOf(c)]

C11_Witness ==
    /\ call.op = "pop_locals"
    /\ call.val_types = <<"I32", "I64">>
    /\ call.lc = [local_32 |-> 2, local_64 |-> 1, local_128 |-> 0, local_ref |-> 0]
    /\ pre.stack_32 = <<1, 2>> /\ pre.stack_64 = <<1>>
    /\ ret.ok
    /\ ret.val.locals_32 = <<2, 0>> /\ ret.val.locals_64 = <<1>>

\* C15: pop_locals returns StackUnderflow, and no Locals, whenever some
\* category holds fewer values than val_types has entries of that category.
C15_PopLocalsUnderflow ==
    (call.op = "pop_locals" /\ ~PushedInOrder(call.val_types))
        => ret = Err(StackUnderflow)

C15_Witness ==
    /\ call.op = "pop_locals"
    /\ call.val_types = <<"I32", "F64">>
    /\ pre.stack_32 = <<1, 2>> /\ pre.stack_64 = <<>>
    /\ ret = Err(StackUnderflow)

\* C16: a successful pop_locals removes from each category exactly the
\* entries of val_types of that category, from the top, and leaves what is
\* beneath unchanged, whatever the counts.
C16_PopLocalsRemoves ==
    (call.op = "pop_locals" /\ ret.ok) =>
        \A c \in Cats :
            /\ Len(pre[c]) >= NArgs(c)
            /\ stack[c] = SubSeq(pre[c], 1, Len(pre[c]) - NArgs(c))

C16_Witness ==
    /\ call.op = "pop_locals"
    /\ call.val_types = <<"F64", "I64">>
    /\ call.lc = [local_32 |-> 0, local_64 |-> 0, local_128 |-> 0, local_ref |-> 0]
    /\ pre.stack_64 = <<1, 2, 3>> /\ pre.stack_ref = <<0>>
    /\ ret.ok
    /\ stack.stack_64 = <<1>> /\ stack.stack_ref = <<0>>

\* C12: whenever select, pop_params, pop_results, pop_locals, calculate or
\* replace_top returns StackUnderflow, the four sequences are what they
\* were before the call.
C12_NoPartialMutation ==
    (/\ call.op \in {"select", "pop_params", "pop_results", "pop_locals",
                     "calculate", "replace_top"}
     /\ ret = Err(StackUnderflow))
        => stack = pre

\* C13: after extend_from_wasmvalues(values), the runtime-typed pops made
\* last value first, each with the ValType of its value, return the values
\* (pop_wasmvalue: the WasmValue itself, a null as the null of the witness's
\* subtype; pop_dyn: its TinyWasmValue), and once all are back the stack is
\* what it was before the values were pushed.
C13_DynRoundTrip ==
    prior.op = "extend_from_wasmvalues" =>
        LET n == Len(prior.values) IN
        /\ \A i \in 1..Len(prior.got) :
              LET value == prior.values[n + 1 - i]
                  g == prior.got[i]
              IN /\ g.by = "pop_wasmvalue" => g.ret = Ok(value)
                 /\ g.by = "pop_dyn" => g.ret = Ok(into(value))
        /\ Len(prior.got) = n => stack = prior.pre

C13_Witness ==
    /\ prior.op = "extend_from_wasmvalues"
    /\ prior.values = <<RefNull("RefFunc"), RefNull("RefExtern")>>
    /\ prior.pre.stack_ref = <<0>>
    /\ prior.got = <<[by |-> "pop_wasmvalue", ret |-> Ok(RefNull("RefExtern"))],
                     [by |-> "pop_wasmvalue", ret |-> Ok(RefNull("RefFunc"))]>>
    /\ stack.stack_ref = <<0>>

\* C17: truncate_keep completes without a fault for every StackLocation and
\* StackHeight, leaving each category no longer than before and its first
\* min(len, to) elements unchanged.
C17_TruncateTotal ==
    call.op = "truncate_keep" =>
        /\ ret = Ok(Unit)
        /\ \A c \in Cats :
              LET n == IF Len(pre[c]) < call.to[LocField(c)]
                       THEN Len(pre[c]) ELSE call.to[LocField(c)]
              IN /\ Len(stack[c]) <= Len(pre[c])
                 /\ SubSeq(stack[c], 1, n) = SubSeq(pre[c], 1, n)

\* C18 as stated: the arrays of a successful pop_locals have the lengths of
\* the counts and every argument is at its index within its category.
C18_NoArgumentLost ==
    (call.op = "pop_locals" /\ ret.ok) =>
        \A c \in Cats :
            /\ Len(ret.val[LocalsOf(c)]) = call.lc[CountOf(c)]
            /\ \A i \in 1..NArgs(c) :
                  /\ i <= Len(ret.val[LocalsOf(c)])
                  /\ ret.val[LocalsOf(c)][i] = ArgsOf(c)[i]

\* C18 amended: the arrays of a successful pop_locals have the lengths of the
\* counts; an index below the number of arguments of the category holds the
\* argument of that index, every other index the default, and the arguments
\* at or beyond the count are in no array.
C18_LocalsSized ==
    (call.op = "pop_locals" /\ ret.ok) =>
        \A c \in Cats :
            /\ Len(ret.val[LocalsOf(c)]) = call.lc[CountOf(c)]
            /\ \A i \in 1..call.lc[CountOf(c)] :
                  ret.val[LocalsOf(c)][i] =
                      IF i <= NArgs(c) THEN ArgsOf(c)[i] ELSE DefaultOf(c)

C18_Witness ==
    /\ call.op = "pop_locals"
    /\ call.val_types = <<"I32", "F32">>
    /\ call.lc = [local_32 |-> 1, local_64 |-> 0, local_128 |-> 0, local_ref |-> 1]
    /\ pre.stack_32 = <<1, 2>>
    /\ ret.ok
    /\ ret.val.locals_32 = <<1>> /\ ret.val.locals_ref = <<None>>
    /\ stack.stack_32 = <<>>

\* C19: when to + keep <= len in each category where len > to, a second
\* truncate_keep(to, keep) right after the first leaves the four sequences
\* as the first left them.
C19_TruncateIdempotent ==
    (call.op = "truncate_keep" /\ prior.op = "truncate_keep"
        /\ InContract(prior.pre, call.to, call.keep))
        => (ret = Ok(Unit) /\ stack = pre)

C19_Witness ==
    /\ call.op = "truncate_keep" /\ prior.op = "truncate_keep"
    /\ prior.pre.stack_32 = <<1, 2, 3, 4>>
    /\ call.to.s32 = 1 /\ call.keep.s32 = 2
    /\ pre.stack_32 = <<1, 3, 4>>
    /\ stack.stack_32 = <<1, 3, 4>>

====
